---- MODULE Spec2Model ----
(***************************************************************************)
(* Model of the repository layer of oracle-n-plus-1-demo: the naive (N+1), *)
(* join and batch retrieval strategies for Orders <-> OrderDetails and for *)
(* Employees <-> Departments, run against a database whose contents are    *)
(* chosen in Init.                                                         *)
(***************************************************************************)
EXTENDS Integers, Sequences, FiniteSets, TLC

\* ------------------------------------------------------------------ bounds
MaxOrders == 3
MaxDetails == 3
MaxEmployees == 3
MaxDepartments == 2

OrderIds == 1..MaxOrders
DetailIds == 1..MaxDetails
EmployeeIds == 1..MaxEmployees
DepartmentIds == 1..MaxDepartments
LocationNames == {"Tokyo"}

\* The default of the -days flag, and the ages (SYSDATE - order_date, in days)
\* an order may have: the oldest age the filter accepts and one day more.
DefaultDays == 30
Ages == {DefaultDays, DefaultDays + 1}

\* Every department carries its own name.
DepartmentName(d) == <<"department", d>>

\* ------------------------------------------------------------- SQL values
\* A nullable column holds <<>> (SQL NULL) or <<v>>.
Null == <<>>
Some(v) == <<v>>
IsNull(c) == c = <<>>
Val(c) == c[1]

\* --------------------------------------------------------------- Go slices
\* A slice is nil or not, and holds its elements; `var s []T` is NilSlice,
\* `[]T{}` and `make([]T, 0, n)` are EmptySlice, append never yields nil once
\* an element was added.
NilSlice == [nil |-> TRUE, elems |-> <<>>]
EmptySlice == [nil |-> FALSE, elems |-> <<>>]
GoAppend(s, x) == [nil |-> FALSE, elems |-> Append(s.elems, x)]
Len0(s) == Len(s.elems)

\* A call's outcome: (value, error) and the number of queries it issued.
Ok(v, n) == [err |-> FALSE, val |-> v, queries |-> n]
Fail(n) == [err |-> TRUE, val |-> NilSlice, queries |-> n]
NotRun == [err |-> FALSE, val |-> NilSlice, queries |-> -1]

VARIABLES
  domain,         \* which repository pair the caller exercises
  orders,         \* table orders: rows [order_id, age]; age = SYSDATE - order_date
  order_details,  \* table order_details: rows [detail_id, order_id]
  days,           \* the filter argument of the order strategies
  employees,      \* table employees: rows [employee_id, department_id]
  departments,    \* table departments: rows [department_id, department_name, location]
  pc,             \* the repository function in progress, or "idle"
  parents,        \* the local `orders` / `employees` of the running function
  idx,            \* number of parents the naive loop has processed
  result,         \* the local `result` of the running function
  queries,        \* queries issued so far by the running function
  inList,         \* the argument list of the last membership (IN) query
  placeholders,   \* the numbers k of the placeholders :k of that query
  ret,            \* the last outcome of each strategy
  turn            \* the strategy the caller invokes next

\* DemoService.CompareOrderPerformance / CompareEmployeePerformance.
VARIABLES
  flaky,          \* whether the connection can fail a query
  hpc,            \* position of the comparison: [at, s]
  log,            \* the strategies the comparison has invoked, in order
  results,        \* its local `results`
  printed,        \* what displayPerformanceComparison printed
  hret            \* what the comparison returned: [err, val]

\* One repository fetch function, statement by statement.
VARIABLES
  cfn,            \* the function and its argument: [name, arg]
  cpc,            \* "idle", "loop", "closing" (the deferred closure), "returned"
  crows,          \* the rows the cursor has not delivered yet
  cacc,           \* the local the loop fills (a slice, or orderMap)
  cursor,         \* [opened, closed, logged]: db.Query successes, rows.Close
                  \* calls, and close errors printed
  cfailed,        \* what went wrong: [query, scan, iter]
  cpending,       \* the operands of the `return` statement that was executed
  cret            \* what the function returned: [err, val]

\* main.
VARIABLES
  flags,          \* the parsed command line
  mpc,            \* position of main
  ran             \* the routines main has called, in order

\* The cache service and the Redis server it talks to.
VARIABLES
  runs,           \* -benchmark-runs, as passed to every cache test
  redisClient,    \* CacheService.redisClient: "nil" or "client"
  redis,          \* the server: [host, pingFailed, key, keyAtStart, ops, expired]
  kpc,            \* position of runCacheTests
  cresults,       \* CacheService.results
  called,         \* the test routines that were invoked, in order
  kret,           \* what the routines of runCacheTests returned
  loop            \* the locals of testRedisCache

dbvars == <<domain, orders, order_details, days, employees, departments>>
hvars == <<flaky, hpc, log, results, printed, hret>>
cvars == <<cfn, cpc, crows, cacc, cursor, cfailed, cpending, cret>>
mvars == <<flags, mpc, ran>>
kvars == <<runs, redisClient, redis, kpc, cresults, called, kret, loop>>
repovars == <<pc, parents, idx, result, queries, inList, placeholders, ret, turn>>
\* What a repository call leaves alone.
outer == <<dbvars, hvars, cvars, mvars, kvars>>
vars == <<dbvars, repovars, hvars, cvars, mvars, kvars>>

Strategies == {"naive", "join", "batch"}

\* The caller runs the strategies in the order of Compare*Performance, naive,
\* join, batch, and may then run them again.
NextTurn(s) == IF s = "naive" THEN "join" ELSE IF s = "join" THEN "batch" ELSE "naive"

\* A strategy runs when its caller invokes it: the comparison, when one is
\* running, and otherwise a caller that takes the strategies in turn.
Invoked(s) ==
  /\ turn = s
  /\ hpc.at = "none" \/ hpc = [at |-> "in", s |-> s]

\* `rows, err := r.db.Query(...)`; `if err != nil { return nil, fmt.Errorf(...) }`
\* A connection that can fail makes any query fail.
QueryErrors == IF flaky THEN BOOLEAN ELSE {FALSE}
QueryError(qerr, out) == IF qerr THEN Fail(1) ELSE out

\* A strategy returns `outcome` to the caller.
Return(s, outcome) ==
  /\ ret' = [ret EXCEPT ![s] = outcome]
  /\ turn' = NextTurn(s)

\* ----------------------------------------------------------------- tables
\* PRIMARY KEY: no two rows of a table share the key column.
OrderKey(T) == \A r, q \in T : r.order_id = q.order_id => r = q
DetailKey(T) == \A r, q \in T : r.detail_id = q.detail_id => r = q
EmployeeKey(T) == \A r, q \in T : r.employee_id = q.employee_id => r = q
DepartmentKey(T) == \A r, q \in T : r.department_id = q.department_id => r = q

OrderRows == [order_id : OrderIds, age : Ages]
DetailRows == [detail_id : DetailIds, order_id : OrderIds]
EmployeeRows == [employee_id : EmployeeIds,
                 department_id : {Null} \cup {Some(d) : d \in DepartmentIds}]
DepartmentRows == {[department_id |-> d, department_name |-> DepartmentName(d),
                    location |-> l] :
                     d \in DepartmentIds, l \in {Null} \cup {Some(x) : x \in LocationNames}}

\* The keys of a table come from a sequence (START WITH 1 INCREMENT BY 1).
Dense(ids, max) == \E n \in 0..max : ids = 1..n

\* ------------------------------------------------------------ ORDER BY
\* ORDER BY k1, k2 ascending: rows are tagged with their key <<k1, k2>> and
\* sorted lexicographically; keys are unique in every query of the program.
KeyLeq(a, b) == a[1] < b[1] \/ (a[1] = b[1] /\ a[2] <= b[2])

RECURSIVE SortTagged(_)
SortTagged(P) ==
  IF P = {} THEN <<>>
  ELSE LET m == CHOOSE p \in P : \A q \in P : KeyLeq(p[1], q[1])
       IN <<m[2]>> \o SortTagged(P \ {m})

\* All orderings of a set of rows (a query without ORDER BY, a map range).
RECURSIVE Orderings(_)
Orderings(T) ==
  IF T = {} THEN {<<>>}
  ELSE UNION {{<<r>> \o s : s \in Orderings(T \ {r})} : r \in T}

Range(s) == {s[i] : i \in 1..Len(s)}
EmptyMap == [k \in {} |-> 0]
MapPut(m, k, v) == [x \in DOMAIN m \cup {k} |-> IF x = k THEN v ELSE m[x]]

\* =========================================================== orders domain
\* ------------------------------------------------------------ the queries
\* SELECT ... FROM orders WHERE order_date >= SYSDATE - :1 ORDER BY order_id
QueryOrdersByDays(d) ==
  SortTagged({<<<<r.order_id, 0>>, r>> : r \in {o \in orders : o.age <= d}})

\* SELECT ... FROM order_details WHERE order_id = :1 ORDER BY detail_id
QueryDetailsByOrderID(orderID) ==
  SortTagged({<<<<r.detail_id, 0>>, r>> :
              r \in {x \in order_details : x.order_id = orderID}})

\* SELECT ... FROM order_details WHERE order_id IN (...) ORDER BY order_id, detail_id
QueryDetailsByOrderIDs(args) ==
  SortTagged({<<<<r.order_id, r.detail_id>>, r>> :
              r \in {x \in order_details : x.order_id \in Range(args)}})

\* SELECT o.*, od.* FROM orders o LEFT JOIN order_details od
\*   ON o.order_id = od.order_id WHERE o.order_date >= SYSDATE - :1
\*   ORDER BY o.order_id, od.detail_id
\* An order without details gives one row whose detail columns are NULL.
JoinRowsOf(o) ==
  LET ds == {x \in order_details : x.order_id = o.order_id}
  IN IF ds = {}
     THEN {[order_id |-> o.order_id, age |-> o.age, detail_id |-> Null]}
     ELSE {[order_id |-> o.order_id, age |-> o.age, detail_id |-> Some(x.detail_id)] :
           x \in ds}

QueryOrdersJoinDetails(d) ==
  SortTagged({<<<<r.order_id, IF IsNull(r.detail_id) THEN 0 ELSE Val(r.detail_id)>>, r>> :
              r \in UNION {JoinRowsOf(o) : o \in {x \in orders : x.age <= d}}})

\* ------------------------------------------------------------- rows.Scan
ScanOrder(row) == [OrderID |-> row.order_id, OrderDate |-> row.age]
ScanDetail(row) == [DetailID |-> row.detail_id, OrderID |-> row.order_id]

\* `var xs []T; for rows.Next() { ...; xs = append(xs, x) }`
RECURSIVE ScanOrders(_, _)
ScanOrders(rows, acc) ==
  IF rows = <<>> THEN acc
  ELSE ScanOrders(Tail(rows), GoAppend(acc, ScanOrder(Head(rows))))

RECURSIVE ScanDetails(_, _)
ScanDetails(rows, acc) ==
  IF rows = <<>> THEN acc
  ELSE ScanDetails(Tail(rows), GoAppend(acc, ScanDetail(Head(rows))))

\* ------------------------------------------------- repository functions
\* Each returns [err, val, queries]: the Go (value, error) pair and the
\* number of queries the call sent to the database.
GetOrdersByDays(d) == Ok(ScanOrders(QueryOrdersByDays(d), NilSlice), 1)

GetDetailsByOrderID(orderID) ==
  Ok(ScanDetails(QueryDetailsByOrderID(orderID), NilSlice), 1)

\* The IN list: placeholders :1..:n bound to args[1..n] = orderIDs[1..n].
InArgs(ids) == [i \in 1..Len(ids) |-> ids[i]]

Placeholders_FromZero(ids) == [i \in 1..Len(ids) |-> i - 1]

\* `placeholders[i] = fmt.Sprintf(":%d", i+1)` for the Go indices i = 0..n-1:
\* the k-th placeholder is :k.
Placeholders(ids) == [i \in 1..Len(ids) |-> i]

GetDetailsByOrderIDs_PerID(orderIDs) ==
  IF Len(orderIDs) = 0 THEN Ok(EmptySlice, 0)
  ELSE Ok(ScanDetails(QueryDetailsByOrderIDs(InArgs(orderIDs)), NilSlice),
          Len(orderIDs))

GetDetailsByOrderIDs(orderIDs) ==
  IF Len(orderIDs) = 0 THEN Ok(EmptySlice, 0)
  ELSE Ok(ScanDetails(QueryDetailsByOrderIDs(InArgs(orderIDs)), NilSlice), 1)

RECURSIVE GroupJoinRows_NoExistsCheck(_, _)
GroupJoinRows_NoExistsCheck(rows, orderMap) ==
  IF rows = <<>> THEN orderMap
  ELSE LET row == Head(rows)
           orderID == row.order_id
           m1 == MapPut(orderMap, orderID,
                        [Order |-> [OrderID |-> orderID, OrderDate |-> row.age],
                         Details |-> EmptySlice])
           m2 == IF ~IsNull(row.detail_id)
                 THEN [m1 EXCEPT ![orderID].Details =
                         GoAppend(@, [DetailID |-> Val(row.detail_id),
                                      OrderID |-> orderID])]
                 ELSE m1
       IN GroupJoinRows_NoExistsCheck(Tail(rows), m2)

\* The row loop of GetOrdersWithDetailsJoin over orderMap.
RECURSIVE GroupJoinRows(_, _)
GroupJoinRows(rows, orderMap) ==
  IF rows = <<>> THEN orderMap
  ELSE LET row == Head(rows)
           orderID == row.order_id
           m1 == IF orderID \in DOMAIN orderMap THEN orderMap
                 ELSE MapPut(orderMap, orderID,
                             [Order |-> [OrderID |-> orderID, OrderDate |-> row.age],
                              Details |-> EmptySlice])
           m2 == IF ~IsNull(row.detail_id)
                 THEN [m1 EXCEPT ![orderID].Details =
                         GoAppend(@, [DetailID |-> Val(row.detail_id),
                                      OrderID |-> orderID])]
                 ELSE m1
       IN GroupJoinRows(Tail(rows), m2)

\* `for _, order := range orderMap { result = append(result, *order) }`:
\* Go leaves the iteration order of a map unspecified, so every ordering of
\* the keys is a possible result.
MapRangeOrders(m) == Orderings(DOMAIN m)

JoinResults(d) ==
  LET orderMap == GroupJoinRows(QueryOrdersJoinDetails(d), EmptyMap)
  IN {[nil |-> FALSE, elems |-> [i \in 1..Len(ks) |-> orderMap[ks[i]]]] :
      ks \in MapRangeOrders(orderMap)}

RECURSIVE GroupDetails_Prepend(_, _)
GroupDetails_Prepend(allDetails, detailsByOrderID) ==
  IF allDetails = <<>> THEN detailsByOrderID
  ELSE LET detail == Head(allDetails)
           old == IF detail.OrderID \in DOMAIN detailsByOrderID
                  THEN detailsByOrderID[detail.OrderID] ELSE NilSlice
       IN GroupDetails_Prepend(Tail(allDetails),
            MapPut(detailsByOrderID, detail.OrderID,
                   [nil |-> FALSE, elems |-> <<detail>> \o old.elems]))

\* Step 4 of GetOrdersWithDetailsBatch: group allDetails by OrderID.
RECURSIVE GroupDetails(_, _)
GroupDetails(allDetails, detailsByOrderID) ==
  IF allDetails = <<>> THEN detailsByOrderID
  ELSE LET detail == Head(allDetails)
           old == IF detail.OrderID \in DOMAIN detailsByOrderID
                  THEN detailsByOrderID[detail.OrderID] ELSE NilSlice
       IN GroupDetails(Tail(allDetails),
                       MapPut(detailsByOrderID, detail.OrderID, GoAppend(old, detail)))

BatchAssemble_Reversed(os, detailsByOrderID) ==
  [nil |-> FALSE,
   elems |-> [i \in 1..Len(os) |->
     LET o == os[Len(os) + 1 - i]
         found == IF o.OrderID \in DOMAIN detailsByOrderID
                  THEN detailsByOrderID[o.OrderID] ELSE NilSlice
     IN [Order |-> o,
         Details |-> IF found.nil THEN EmptySlice ELSE found]]]

BatchAssemble_KeepNil(os, detailsByOrderID) ==
  [nil |-> FALSE,
   elems |-> [i \in 1..Len(os) |->
     [Order |-> os[i],
      Details |-> IF os[i].OrderID \in DOMAIN detailsByOrderID
                  THEN detailsByOrderID[os[i].OrderID] ELSE NilSlice]]]

\* Step 5 of GetOrdersWithDetailsBatch: one aggregate per order, in order.
BatchAssemble(os, detailsByOrderID) ==
  [nil |-> FALSE,
   elems |-> [i \in 1..Len(os) |->
     LET found == IF os[i].OrderID \in DOMAIN detailsByOrderID
                  THEN detailsByOrderID[os[i].OrderID] ELSE NilSlice
     IN [Order |-> os[i],
         Details |-> IF found.nil THEN EmptySlice ELSE found]]]

OrderIDsOf(os) == [i \in 1..Len(os) |-> os[i].OrderID]

\* ------------------------------------------------------------------ Init
DetailsReferTo(ds, os) ==
  \A x \in ds : \E o \in os : o.order_id = x.order_id

InitOrders ==
  /\ domain = "order"
  /\ orders \in {T \in SUBSET OrderRows :
                   OrderKey(T) /\ Dense({r.order_id : r \in T}, MaxOrders)}
  /\ order_details \in {T \in SUBSET DetailRows :
                          /\ DetailKey(T)
                          /\ Dense({r.detail_id : r \in T}, MaxDetails)
                          /\ DetailsReferTo(T, orders)}
  /\ days = DefaultDays
  /\ employees = {}
  /\ departments = {}

InitLocals ==
  /\ pc = "idle"
  /\ parents = NilSlice
  /\ idx = 0
  /\ result = NilSlice
  /\ queries = 0
  /\ inList = <<>>
  /\ placeholders = <<>>
  /\ ret = [s \in Strategies |-> NotRun]
  /\ turn = "naive"

\* --------------------------------------------------------------- actions
NaiveFailure_Partial(partial, n) == [err |-> TRUE, val |-> partial, queries |-> n]

\* `return nil, err` inside the loop of a naive strategy: the aggregates
\* assembled so far are not returned.
NaiveFailure(partial, n) == Fail(n)

\* The locals of a function that has returned.
Idle ==
  /\ pc' = "idle"
  /\ parents' = NilSlice
  /\ idx' = 0
  /\ result' = NilSlice
  /\ queries' = 0

\* ProblemOrderRepository.GetOrdersWithDetails: the parent query.
NaiveOrdersStart ==
  /\ pc = "idle" /\ domain = "order" /\ Invoked("naive")
  /\ \E qerr \in QueryErrors :
       LET r == QueryError(qerr, GetOrdersByDays(days))
       IN IF r.err
          THEN /\ Return("naive", Fail(r.queries))
               /\ UNCHANGED <<pc, parents, queries>>
          ELSE /\ parents' = r.val
               /\ queries' = r.queries
               /\ pc' = "GetOrdersWithDetails"
               /\ UNCHANGED <<ret, turn>>
  /\ result' = NilSlice
  /\ idx' = 0
  /\ UNCHANGED <<outer, inList, placeholders>>

\* One iteration of its loop: the detail query of the next order.
NaiveOrdersStep ==
  /\ pc = "GetOrdersWithDetails"
  /\ idx < Len0(parents)
  /\ \E qerr \in QueryErrors :
       LET order == parents.elems[idx + 1]
           r == QueryError(qerr, GetDetailsByOrderID(order.OrderID))
       IN IF r.err
          THEN /\ Return("naive", NaiveFailure(result, queries + r.queries))
               /\ Idle
          ELSE /\ result' = GoAppend(result, [Order |-> order, Details |-> r.val])
               /\ queries' = queries + r.queries
               /\ idx' = idx + 1
               /\ UNCHANGED <<pc, parents, ret, turn>>
  /\ UNCHANGED <<outer, inList, placeholders>>

NaiveOrdersReturn ==
  /\ pc = "GetOrdersWithDetails"
  /\ idx = Len0(parents)
  /\ Return("naive", Ok(result, queries))
  /\ Idle
  /\ UNCHANGED <<outer, inList, placeholders>>

\* OptimizedOrderRepository.GetOrdersWithDetailsJoin: one query, grouping,
\* map-to-slice conversion.
JoinOrders ==
  /\ pc = "idle" /\ domain = "order" /\ Invoked("join")
  /\ \E qerr \in QueryErrors, res \in JoinResults(days) :
       Return("join", QueryError(qerr, Ok(res, 1)))
  /\ UNCHANGED <<outer, pc, parents, idx, result, queries, inList, placeholders>>

\* `return []models.OrderWithDetails{}, nil`
BatchOrdersEmpty_Nil == NilSlice
BatchOrdersEmpty == EmptySlice

\* OptimizedOrderRepository.GetOrdersWithDetailsBatch: the parent query and
\* the early return on zero orders.
BatchOrdersStart ==
  /\ pc = "idle" /\ domain = "order" /\ Invoked("batch")
  /\ \E qerr \in QueryErrors :
       LET r == QueryError(qerr, GetOrdersByDays(days))
       IN IF r.err
          THEN /\ Return("batch", Fail(r.queries))
               /\ UNCHANGED <<pc, parents, queries>>
          ELSE IF Len0(r.val) = 0
          THEN /\ Return("batch", Ok(BatchOrdersEmpty, r.queries))
               /\ UNCHANGED <<pc, parents, queries>>
          ELSE /\ parents' = r.val
               /\ queries' = r.queries
               /\ pc' = "GetOrdersWithDetailsBatch"
               /\ UNCHANGED <<ret, turn>>
  /\ inList' = <<>>
  /\ placeholders' = <<>>
  /\ UNCHANGED <<outer, idx, result>>

\* Steps 2-5: the membership query, grouping and assembly.
BatchOrdersFinish ==
  /\ pc = "GetOrdersWithDetailsBatch"
  /\ \E qerr \in QueryErrors :
       LET orderIDs == OrderIDsOf(parents.elems)
           r == QueryError(qerr, GetDetailsByOrderIDs(orderIDs))
       IN /\ inList' = InArgs(orderIDs)
          /\ placeholders' = Placeholders(orderIDs)
          /\ Return("batch",
                    IF r.err THEN Fail(queries + r.queries)
                    ELSE LET detailsByOrderID == GroupDetails(r.val.elems, EmptyMap)
                         IN Ok(BatchAssemble(parents.elems, detailsByOrderID),
                               queries + r.queries))
  /\ Idle
  /\ UNCHANGED outer

\* ======================================================== employees domain
\* ------------------------------------------------------------ the queries
\* SELECT ... FROM employees ORDER BY employee_id
QueryAllEmployees ==
  SortTagged({<<<<r.employee_id, 0>>, r>> : r \in employees})

\* SELECT ... FROM departments WHERE department_id = :1
QueryDepartmentByID(departmentID) ==
  {d \in departments : d.department_id = departmentID}

\* SELECT ... FROM departments WHERE department_id IN (...): no ORDER BY, so
\* the rows come back in any order.
QueryDepartmentsByIDs(args) ==
  Orderings({d \in departments : d.department_id \in Range(args)})

\* SELECT e.*, d.department_name, d.location FROM employees e
\*   LEFT JOIN departments d ON e.department_id = d.department_id
\*   ORDER BY e.employee_id
EmployeeJoinRow(e) ==
  LET ds == {d \in departments :
               ~IsNull(e.department_id) /\ d.department_id = Val(e.department_id)}
  IN IF ds = {}
     THEN [employee_id |-> e.employee_id, department_id |-> e.department_id,
           department_name |-> Null, location |-> Null]
     ELSE LET d == CHOOSE x \in ds : TRUE
          IN [employee_id |-> e.employee_id, department_id |-> e.department_id,
              department_name |-> Some(d.department_name), location |-> d.location]

QueryEmployeesJoinDepartments ==
  SortTagged({<<<<e.employee_id, 0>>, EmployeeJoinRow(e)>> : e \in employees})

\* ------------------------------------------------------------- rows.Scan
\* Scan into a non-pointer Go variable fails on SQL NULL.
ScanEmployeeFails(row) == IsNull(row.department_id)
ScanEmployee(row) ==
  [EmployeeID |-> row.employee_id, DepartmentID |-> Val(row.department_id)]

ScanDepartmentFails(row) == IsNull(row.location)
ScanDepartment(row) ==
  [DepartmentID |-> row.department_id, DepartmentName |-> row.department_name,
   Location |-> Val(row.location)]

\* A *Department: <<>> is nil, <<d>> points to d.
NilPtr == <<>>
PtrTo(d) == <<d>>

RECURSIVE ScanEmployees(_, _)
ScanEmployees(rows, acc) ==
  IF rows = <<>> THEN Ok(acc, 1)
  ELSE IF ScanEmployeeFails(Head(rows)) THEN Fail(1)
  ELSE ScanEmployees(Tail(rows), GoAppend(acc, ScanEmployee(Head(rows))))

RECURSIVE ScanDepartments(_, _)
ScanDepartments(rows, acc) ==
  IF rows = <<>> THEN Ok(acc, 1)
  ELSE IF ScanDepartmentFails(Head(rows)) THEN Fail(1)
  ELSE ScanDepartments(Tail(rows), GoAppend(acc, ScanDepartment(Head(rows))))

\* ------------------------------------------------- repository functions
GetAllEmployees == ScanEmployees(QueryAllEmployees, NilSlice)

GetDepartmentByID_NoRowsIsError(departmentID) ==
  LET rows == QueryDepartmentByID(departmentID)
  IN IF rows = {} THEN [err |-> TRUE, val |-> NilPtr, queries |-> 1]
     ELSE LET row == CHOOSE x \in rows : TRUE
          IN IF ScanDepartmentFails(row)
             THEN [err |-> TRUE, val |-> NilPtr, queries |-> 1]
             ELSE [err |-> FALSE, val |-> PtrTo(ScanDepartment(row)), queries |-> 1]

\* QueryRow(...).Scan(...): sql.ErrNoRows gives (nil, nil), a scan failure an
\* error, a row a pointer to the department.  val holds the pointer.
GetDepartmentByID(departmentID) ==
  LET rows == QueryDepartmentByID(departmentID)
  IN IF rows = {} THEN [err |-> FALSE, val |-> NilPtr, queries |-> 1]
     ELSE LET row == CHOOSE x \in rows : TRUE
          IN IF ScanDepartmentFails(row)
             THEN [err |-> TRUE, val |-> NilPtr, queries |-> 1]
             ELSE [err |-> FALSE, val |-> PtrTo(ScanDepartment(row)), queries |-> 1]

\* The outcomes of GetDepartmentsByIDs, one per order of the returned rows.
GetDepartmentsByIDs(departmentIDs) ==
  IF Len(departmentIDs) = 0 THEN {Ok(EmptySlice, 0)}
  ELSE {ScanDepartments(rows, NilSlice) :
        rows \in QueryDepartmentsByIDs(InArgs(departmentIDs))}

\* The row loop of GetEmployeesWithDepartmentJoin.
RECURSIVE ScanEmployeeJoinRows(_, _)
ScanEmployeeJoinRows(rows, acc) ==
  IF rows = <<>> THEN Ok(acc, 1)
  ELSE LET row == Head(rows)
       IN IF ScanEmployeeFails(row) THEN Fail(1)
          ELSE LET departmentName == row.department_name
                   location == row.location
                   emp == [Employee |-> ScanEmployee(row),
                           Department |->
                             IF ~IsNull(departmentName) /\ ~IsNull(location)
                             THEN PtrTo([DepartmentID |-> Val(row.department_id),
                                         DepartmentName |-> Val(departmentName),
                                         Location |-> Val(location)])
                             ELSE NilPtr]
               IN ScanEmployeeJoinRows(Tail(rows), GoAppend(acc, emp))

GetEmployeesWithDepartmentJoin ==
  ScanEmployeeJoinRows(QueryEmployeesJoinDepartments, NilSlice)

\* Step 2 of GetEmployeesWithDepartmentBatch: the set of department IDs, and
\* its conversion to a list by ranging over the map (any order).
DepartmentIDSet(es) == {es[i].DepartmentID : i \in 1..Len(es)}
DepartmentIDLists_NoDedup(es) == {[i \in 1..Len(es) |-> es[i].DepartmentID]}
DepartmentIDLists(es) == Orderings(DepartmentIDSet(es))

DepartmentMapOf_FirstRowOnly(ds, departmentMap) ==
  IF ds = <<>> THEN departmentMap
  ELSE MapPut(departmentMap, Head(ds).DepartmentID, Head(ds))

\* Step 4: departmentMap.
RECURSIVE DepartmentMapOf(_, _)
DepartmentMapOf(ds, departmentMap) ==
  IF ds = <<>> THEN departmentMap
  ELSE DepartmentMapOf(Tail(ds), MapPut(departmentMap, Head(ds).DepartmentID, Head(ds)))

\* Step 5: one aggregate per employee, in order.
BatchAssembleEmployees(es, departmentMap) ==
  [nil |-> FALSE,
   elems |-> [i \in 1..Len(es) |->
     [Employee |-> es[i],
      Department |-> IF es[i].DepartmentID \in DOMAIN departmentMap
                     THEN PtrTo(departmentMap[es[i].DepartmentID])
                     ELSE NilPtr]]]

\* ------------------------------------------------------------------ Init
InitEmployees ==
  /\ domain = "employee"
  /\ employees \in {T \in SUBSET EmployeeRows :
                      EmployeeKey(T) /\ Dense({r.employee_id : r \in T}, MaxEmployees)}
  /\ departments \in {T \in SUBSET DepartmentRows :
                        DepartmentKey(T) /\ Dense({r.department_id : r \in T}, MaxDepartments)}
  /\ orders = {}
  /\ order_details = {}
  /\ days = DefaultDays

\* --------------------------------------------------------------- actions
\* ProblemEmployeeRepository.GetEmployeesWithDepartment: the parent query.
NaiveEmployeesStart ==
  /\ pc = "idle" /\ domain = "employee" /\ Invoked("naive")
  /\ \E qerr \in QueryErrors :
       LET r == QueryError(qerr, GetAllEmployees)
       IN IF r.err
          THEN /\ Return("naive", Fail(r.queries))
               /\ UNCHANGED <<pc, parents, queries>>
          ELSE /\ parents' = r.val
               /\ queries' = r.queries
               /\ pc' = "GetEmployeesWithDepartment"
               /\ UNCHANGED <<ret, turn>>
  /\ UNCHANGED <<outer, idx, result, inList, placeholders>>

\* One iteration of its loop: the department lookup of the next employee.
NaiveEmployeesStep ==
  /\ pc = "GetEmployeesWithDepartment"
  /\ idx < Len0(parents)
  /\ \E qerr \in QueryErrors :
       LET employee == parents.elems[idx + 1]
           r == QueryError(qerr, GetDepartmentByID(employee.DepartmentID))
       IN IF r.err
          THEN /\ Return("naive", NaiveFailure(result, queries + r.queries))
               /\ Idle
          ELSE /\ result' = GoAppend(result, [Employee |-> employee,
                                              Department |-> r.val])
               /\ queries' = queries + r.queries
               /\ idx' = idx + 1
               /\ UNCHANGED <<pc, parents, ret, turn>>
  /\ UNCHANGED <<outer, inList, placeholders>>

NaiveEmployeesReturn ==
  /\ pc = "GetEmployeesWithDepartment"
  /\ idx = Len0(parents)
  /\ Return("naive", Ok(result, queries))
  /\ Idle
  /\ UNCHANGED <<outer, inList, placeholders>>

\* OptimizedEmployeeRepository.GetEmployeesWithDepartmentJoin.
JoinEmployees ==
  /\ pc = "idle" /\ domain = "employee" /\ Invoked("join")
  /\ \E qerr \in QueryErrors :
       Return("join", QueryError(qerr, GetEmployeesWithDepartmentJoin))
  /\ UNCHANGED <<outer, pc, parents, idx, result, queries, inList, placeholders>>

\* `return []models.EmployeeWithDepartment{}, nil`
BatchEmployeesEmpty == EmptySlice

\* OptimizedEmployeeRepository.GetEmployeesWithDepartmentBatch: the parent
\* query and the early return on zero employees.
BatchEmployeesStart ==
  /\ pc = "idle" /\ domain = "employee" /\ Invoked("batch")
  /\ \E qerr \in QueryErrors :
       LET r == QueryError(qerr, GetAllEmployees)
       IN IF r.err
          THEN /\ Return("batch", Fail(r.queries))
               /\ UNCHANGED <<pc, parents, queries>>
          ELSE IF Len0(r.val) = 0
          THEN /\ Return("batch", Ok(BatchEmployeesEmpty, r.queries))
               /\ UNCHANGED <<pc, parents, queries>>
          ELSE /\ parents' = r.val
               /\ queries' = r.queries
               /\ pc' = "GetEmployeesWithDepartmentBatch"
               /\ UNCHANGED <<ret, turn>>
  /\ inList' = <<>>
  /\ placeholders' = <<>>
  /\ UNCHANGED <<outer, idx, result>>

\* Steps 2-5: distinct department IDs, the membership query, departmentMap
\* and assembly.
BatchEmployeesFinish ==
  /\ pc = "GetEmployeesWithDepartmentBatch"
  /\ \E departmentIDs \in DepartmentIDLists(parents.elems) :
       \E qerr \in QueryErrors, r0 \in GetDepartmentsByIDs(departmentIDs) :
         LET r == QueryError(qerr, r0) IN
         /\ inList' = InArgs(departmentIDs)
         /\ placeholders' = Placeholders(departmentIDs)
         /\ Return("batch",
                   IF r.err THEN Fail(queries + r.queries)
                   ELSE Ok(BatchAssembleEmployees(
                             parents.elems, DepartmentMapOf(r.val.elems, EmptyMap)),
                           queries + r.queries))
  /\ Idle
  /\ UNCHANGED outer

NextEmployees ==
  \/ NaiveEmployeesStart
  \/ NaiveEmployeesStep
  \/ NaiveEmployeesReturn
  \/ JoinEmployees
  \/ BatchEmployeesStart
  \/ BatchEmployeesFinish

NextOrders ==
  \/ NaiveOrdersStart
  \/ NaiveOrdersStep
  \/ NaiveOrdersReturn
  \/ JoinOrders
  \/ BatchOrdersStart
  \/ BatchOrdersFinish

\* ========================================================= the comparison
\* time.Since(start), in nanoseconds: 3ms and 30ms.
Durations == {3000000, 30000000}

MethodName(s) ==
  IF s = "naive" THEN "N+1_Problem"
  ELSE IF s = "join" THEN "JOIN_Optimized" ELSE "Batch_Optimized"

PerformanceRecord_QueryCount(s, out, d) ==
  [Method |-> MethodName(s), ExecutionTime |-> d, RecordCount |-> out.queries]

\* PerformanceResult{Method, ExecutionTime, RecordCount: len(xs)}
PerformanceRecord(s, out, d) ==
  [Method |-> MethodName(s), ExecutionTime |-> d, RecordCount |-> Len0(out.val)]

\* `%.1f`: a quotient num/den of positive integers, in tenths, rounded to
\* the nearest.
FormatTenths(num, den) == (20 * num + den) \div (2 * den)

Improvement_Inverse(baseDuration, executionTime) ==
  FormatTenths(executionTime, baseDuration)

\* float64(baseDuration.Nanoseconds()) / float64(result.ExecutionTime.Nanoseconds())
Improvement(baseDuration, executionTime) ==
  FormatTenths(baseDuration, executionTime)

\* The search for the best improvement, from results[1] on. `improvement >
\* bestImprovement` compares two quotients of the same positive baseline, so
\* the smaller divisor gives the greater quotient.
RECURSIVE BestResult(_, _, _)
BestResult(rs, i, best) ==
  IF i > Len(rs) THEN best
  ELSE BestResult(rs, i + 1,
                  IF rs[i].ExecutionTime < best.ExecutionTime
                  THEN rs[i] ELSE best)

NothingPrinted == [lines |-> <<>>, best |-> <<>>]

displayPerformanceComparison(rs) ==
  IF Len(rs) < 2 THEN NothingPrinted
  ELSE LET baseDuration == rs[1].ExecutionTime
           bestResult == BestResult(rs, 3, rs[2])
       IN [lines |-> [i \in 1..Len(rs) |->
                        [Method |-> rs[i].Method,
                         baseline |-> (i = 1),
                         improvement |-> IF i = 1 THEN 0
                                         ELSE Improvement(baseDuration,
                                                          rs[i].ExecutionTime)]],
           best |-> <<[Method |-> bestResult.Method,
                       improvement |-> Improvement(baseDuration,
                                                   bestResult.ExecutionTime)]>>]

AfterFailure_Continue(s) ==
  IF s = "batch" THEN [at |-> "display", s |-> s]
  ELSE [at |-> "call", s |-> NextTurn(s)]

\* `if err != nil { return nil, fmt.Errorf(...) }`
AfterFailure(s) == [at |-> "done", s |-> s]

\* `start := time.Now()` and the call of the strategy.
CompareCall(s) ==
  /\ hpc = [at |-> "call", s |-> s]
  /\ pc = "idle"
  /\ hpc' = [at |-> "in", s |-> s]
  /\ log' = Append(log, s)
  /\ UNCHANGED <<dbvars, kvars, repovars, cvars, mvars, flaky, results, printed, hret>>

\* The strategy has returned: the error check, time.Since and the append.
CompareReturn(s) ==
  /\ hpc = [at |-> "in", s |-> s]
  /\ pc = "idle" /\ turn = NextTurn(s)
  /\ IF ret[s].err
     THEN /\ hpc' = AfterFailure(s)
          /\ hret' = IF AfterFailure(s).at = "done"
                     THEN [err |-> TRUE, val |-> NilSlice] ELSE hret
          /\ UNCHANGED results
     ELSE /\ \E d \in Durations :
               results' = GoAppend(results, PerformanceRecord(s, ret[s], d))
          /\ hpc' = IF s = "batch" THEN [at |-> "display", s |-> s]
                    ELSE [at |-> "call", s |-> NextTurn(s)]
          /\ UNCHANGED hret
  /\ UNCHANGED <<dbvars, kvars, repovars, cvars, mvars, flaky, log, printed>>

\* `s.displayPerformanceComparison(results)`; `return results, nil`
CompareDisplay ==
  /\ hpc.at = "display"
  /\ printed' = displayPerformanceComparison(results.elems)
  /\ hret' = [err |-> FALSE, val |-> results]
  /\ hpc' = [at |-> "done", s |-> hpc.s]
  /\ UNCHANGED <<dbvars, kvars, repovars, cvars, mvars, flaky, log, results>>

InitNoCompare ==
  /\ flaky = FALSE
  /\ hpc = [at |-> "none", s |-> "naive"]
  /\ log = <<>>
  /\ results = NilSlice
  /\ printed = NothingPrinted
  /\ hret = [err |-> FALSE, val |-> NilSlice]

\* `var results []PerformanceResult`, over a connection that can fail.
InitCompare ==
  /\ flaky = TRUE
  /\ hpc = [at |-> "call", s |-> "naive"]
  /\ log = <<>>
  /\ results = NilSlice
  /\ printed = NothingPrinted
  /\ hret = [err |-> FALSE, val |-> NilSlice]

InitNoFetch ==
  /\ cfn = [name |-> "none", arg |-> <<>>]
  /\ cpc = "idle"
  /\ crows = <<>>
  /\ cacc = NilSlice
  /\ cursor = [opened |-> 0, closed |-> 0, logged |-> 0]
  /\ cfailed = [query |-> FALSE, scan |-> FALSE, iter |-> FALSE]
  /\ cpending = [err |-> FALSE, val |-> NilSlice]
  /\ cret = [err |-> FALSE, val |-> NilSlice]

InitNoMain ==
  /\ flags = [f \in {} |-> FALSE]
  /\ mpc = "none"
  /\ ran = <<>>

\* The routines of the cache tests whose outcome is recorded.
CacheRoutines ==
  {"PerformComprehensiveAnalysis", "testDatabaseBufferCache", "testResultCache",
   "testPLSQLFunctionCache", "testOracleInternalCacheFallback",
   "TestOracleInternalCache", "TestExternalCache", "DisplayCacheComparison",
   "DisplayMemoryUsageComparison"}

\* `var totalDuration time.Duration`, `var hitCount int64` and the loop
\* counter of testRedisCache; dbQueries and outcomes record what the
\* iterations did.
NoLoop == [i |-> 0, hitCount |-> 0, dbQueries |-> 0, totalDuration |-> 0,
           outcomes |-> <<>>]

NoRedis == [host |-> FALSE, pingFailed |-> FALSE, key |-> FALSE,
            keyAtStart |-> FALSE, ops |-> 0, expired |-> FALSE]

InitNoCache ==
  /\ runs = 0
  /\ redisClient = "nil"
  /\ redis = NoRedis
  /\ kpc = "none"
  /\ cresults = <<>>
  /\ called = <<>>
  /\ kret = [r \in CacheRoutines |-> "none"]
  /\ loop = NoLoop

Init == (InitOrders \/ InitEmployees) /\ InitLocals
        /\ InitNoCompare /\ InitNoFetch /\ InitNoMain /\ InitNoCache
Next == NextOrders \/ NextEmployees
Spec == Init /\ [][Next]_vars

\* The comparison over either domain.
InitService == (InitOrders \/ InitEmployees) /\ InitLocals
               /\ InitCompare /\ InitNoFetch /\ InitNoMain /\ InitNoCache
NextService ==
  \/ NextOrders
  \/ NextEmployees
  \/ \E s \in Strategies : CompareCall(s)
  \/ \E s \in Strategies : CompareReturn(s)
  \/ CompareDisplay
SpecService == InitService /\ [][NextService]_vars
\* ================================================= one fetch function
\* Every fetch function of the repositories has the same shape: db.Query, the
\* error check, the deferred rows.Close, `for rows.Next()` with rows.Scan and
\* the accumulation, and the final return.  cfn names the function and its
\* argument; the rows and the scan are those of the function.
FetchFunctions ==
  IF domain = "order"
  THEN {"GetOrdersByDays", "GetDetailsByOrderID", "GetDetailsByOrderIDs",
        "GetOrdersWithDetailsJoin"}
  ELSE {"GetAllEmployees", "GetDepartmentsByIDs", "GetEmployeesWithDepartmentJoin"}

\* The arguments the program calls a function with.
FetchArgs(name) ==
  CASE name = "GetDetailsByOrderID" -> {<<o.order_id>> : o \in orders}
    [] name = "GetDetailsByOrderIDs" ->
         {<<>>, OrderIDsOf(GetOrdersByDays(days).val.elems)}
    [] name = "GetDepartmentsByIDs" ->
         UNION {Orderings(D) : D \in SUBSET {d.department_id : d \in departments}}
    [] OTHER -> {<<days>>}

\* The functions that take an ID list and query with IN (...).
IsMembership(name) == name \in {"GetDetailsByOrderIDs", "GetDepartmentsByIDs"}

NoQuery_Never(name, arg) == FALSE

\* `if len(ids) == 0 { return []T{}, nil }` ahead of the query.
NoQuery(name, arg) == IsMembership(name) /\ Len(arg) = 0

\* The row sequences the query of the function can deliver.
FetchQuery(name, arg) ==
  CASE name = "GetOrdersByDays" -> {QueryOrdersByDays(arg[1])}
    [] name = "GetDetailsByOrderID" -> {QueryDetailsByOrderID(arg[1])}
    [] name = "GetDetailsByOrderIDs" -> {QueryDetailsByOrderIDs(InArgs(arg))}
    [] name = "GetOrdersWithDetailsJoin" -> {QueryOrdersJoinDetails(arg[1])}
    [] name = "GetAllEmployees" -> {QueryAllEmployees}
    [] name = "GetDepartmentsByIDs" -> QueryDepartmentsByIDs(InArgs(arg))
    [] OTHER -> {QueryEmployeesJoinDepartments}

\* `var xs []T`, or `orderMap := make(map[int64]*models.OrderWithDetails)`.
FetchLocal(name) ==
  IF name = "GetOrdersWithDetailsJoin" THEN EmptyMap ELSE NilSlice

\* One turn of the loop body on `row`: [err, val], val the local afterwards.
FetchScan(name, row, local) ==
  CASE name = "GetOrdersByDays" -> Ok(ScanOrders(<<row>>, local), 1)
    [] name \in {"GetDetailsByOrderID", "GetDetailsByOrderIDs"} ->
         Ok(ScanDetails(<<row>>, local), 1)
    [] name = "GetOrdersWithDetailsJoin" -> Ok(GroupJoinRows(<<row>>, local), 1)
    [] name = "GetAllEmployees" -> ScanEmployees(<<row>>, local)
    [] name = "GetDepartmentsByIDs" -> ScanDepartments(<<row>>, local)
    [] OTHER -> ScanEmployeeJoinRows(<<row>>, local)

\* The values `return xs, nil` after the loop can give; the join of the
\* orders copies orderMap into a slice first.
FetchReturn(name, local) ==
  IF name = "GetOrdersWithDetailsJoin"
  THEN {[nil |-> FALSE, elems |-> [i \in 1..Len(ks) |-> local[ks[i]]]] :
        ks \in MapRangeOrders(local)}
  ELSE {local}

NoFailure == [query |-> FALSE, scan |-> FALSE, iter |-> FALSE]
NoCursor == [opened |-> 0, closed |-> 0, logged |-> 0]

ReturnTo_OnSuccessOnly(out) == IF out.err THEN "returned" ELSE "closing"

\* `defer func() { if cerr := rows.Close(); ... }()` is registered as soon as
\* db.Query has succeeded: every return after it runs the closure first.
ReturnTo(out) == "closing"

CloseOutcome_Fatal(out, cerr) ==
  IF cerr THEN [err |-> TRUE, val |-> NilSlice] ELSE out

\* The closure only prints cerr; the function has no named results it could
\* change.
CloseOutcome(out, cerr) == out

\* The call up to the loop: the short cut, db.Query and its error check,
\* the defer and the declaration of the local.
FetchCall ==
  /\ cpc = "idle"
  /\ \E name \in FetchFunctions :
       \E arg \in FetchArgs(name), qerr \in BOOLEAN :
         /\ cfn' = [name |-> name, arg |-> arg]
         /\ inList' = IF IsMembership(name) /\ ~NoQuery(name, arg)
                      THEN InArgs(arg) ELSE <<>>
         /\ placeholders' = IF IsMembership(name) /\ ~NoQuery(name, arg)
                            THEN Placeholders(arg) ELSE <<>>
         /\ cacc' = FetchLocal(name)
         /\ cpending' = [err |-> FALSE, val |-> NilSlice]
         /\ IF NoQuery(name, arg)
            THEN /\ cret' = [err |-> FALSE, val |-> EmptySlice]
                 /\ cpc' = "returned"
                 /\ crows' = <<>>
                 /\ cursor' = NoCursor
                 /\ cfailed' = NoFailure
            ELSE IF qerr
            THEN /\ cret' = [err |-> TRUE, val |-> NilSlice]
                 /\ cpc' = "returned"
                 /\ crows' = <<>>
                 /\ cursor' = NoCursor
                 /\ cfailed' = [NoFailure EXCEPT !.query = TRUE]
            ELSE /\ crows' \in FetchQuery(name, arg)
                 /\ cpc' = "loop"
                 /\ cursor' = [NoCursor EXCEPT !.opened = 1]
                 /\ cfailed' = NoFailure
                 /\ cret' = [err |-> FALSE, val |-> NilSlice]
  /\ UNCHANGED <<dbvars, kvars, hvars, mvars, pc, parents, idx, result, queries, ret, turn>>

\* rows.Next() is true: rows.Scan, `return nil, err` on failure, else the
\* accumulation.
FetchRow ==
  /\ cpc = "loop" /\ crows # <<>>
  /\ LET r == FetchScan(cfn.name, Head(crows), cacc)
         out == [err |-> TRUE, val |-> NilSlice]
     IN IF r.err
        THEN /\ cfailed' = [cfailed EXCEPT !.scan = TRUE]
             /\ cpending' = out
             /\ cpc' = ReturnTo(out)
             /\ cret' = IF ReturnTo(out) = "returned" THEN out ELSE cret
             /\ UNCHANGED <<cacc, crows>>
        ELSE /\ cacc' = r.val
             /\ crows' = Tail(crows)
             /\ UNCHANGED <<cfailed, cpending, cpc, cret>>
  /\ UNCHANGED <<dbvars, kvars, repovars, hvars, mvars, cfn, cursor>>

\* rows.Next() is false because the rows are exhausted: `return xs, nil`.
FetchEnd ==
  /\ cpc = "loop" /\ crows = <<>>
  /\ \E v \in FetchReturn(cfn.name, cacc) :
       cpending' = [err |-> FALSE, val |-> v]
  /\ cpc' = "closing"
  /\ UNCHANGED <<dbvars, kvars, repovars, hvars, mvars, cfn, crows, cacc, cursor, cfailed, cret>>

\* rows.Next() is false because fetching the next row failed (the connection
\* dropped, the driver reported an error): rows.Err() is non-nil, the code
\* never reads it and goes on to `return xs, nil`.
FetchIterError ==
  /\ cpc = "loop"
  /\ cfailed' = [cfailed EXCEPT !.iter = TRUE]
  /\ \E v \in FetchReturn(cfn.name, cacc) :
       cpending' = [err |-> FALSE, val |-> v]
  /\ cpc' = "closing"
  /\ UNCHANGED <<dbvars, kvars, repovars, hvars, mvars, cfn, crows, cacc, cursor, cret>>

\* The deferred closure: rows.Close() and, if it fails, the Printf.
FetchClose ==
  /\ cpc = "closing"
  /\ \E cerr \in BOOLEAN :
       /\ cursor' = [cursor EXCEPT !.closed = @ + 1,
                                    !.logged = @ + (IF cerr THEN 1 ELSE 0)]
       /\ cret' = CloseOutcome(cpending, cerr)
  /\ cpc' = "returned"
  /\ UNCHANGED <<dbvars, kvars, repovars, hvars, mvars, cfn, crows, cacc, cfailed, cpending>>

NextFetch ==
  \/ FetchCall
  \/ FetchRow
  \/ FetchEnd
  \/ FetchIterError
  \/ FetchClose
SpecFetch == Init /\ [][NextFetch]_vars

\* ===================================================================== main
\* The boolean flags of the command line; -days and -benchmark-runs only
\* pass numbers on.
MainFlags == {"help", "sample", "stats", "order-only", "employee-only",
              "cache-test", "cache-only"}

\* runAllTests: runOrderTests, then runEmployeeTests.
runAllTests == <<"runOrderTests", "runEmployeeTests">>

\* `if *cacheTest { runCacheTests(...) }`
WithCacheTests(f) == IF f["cache-test"] THEN <<"runCacheTests">> ELSE <<>>

\* The `switch` of main: the first case that holds decides what runs.
Dispatch(f) ==
  IF f["cache-only"] THEN <<"runCacheTests">>
  ELSE IF f["cache-test"] /\ ~f["order-only"] /\ ~f["employee-only"]
  THEN runAllTests \o <<"runCacheTests">>
  ELSE IF f["order-only"] THEN <<"runOrderTests">> \o WithCacheTests(f)
  ELSE IF f["employee-only"] THEN <<"runEmployeeTests">> \o WithCacheTests(f)
  ELSE runAllTests

\* flag.Parse, -help, then LoadConfig, ConnectDatabase and Ping, each of
\* which ends the program through log.Fatalf when it fails.
MainStart ==
  /\ mpc = "start"
  /\ IF flags["help"]
     THEN /\ ran' = Append(ran, "showHelp")
          /\ mpc' = "exit"
     ELSE /\ \E up \in BOOLEAN : mpc' = IF up THEN "stats" ELSE "fatal"
          /\ UNCHANGED ran
  /\ UNCHANGED <<dbvars, kvars, repovars, hvars, cvars, flags>>

\* `if *showStats { demoService.GetDatabaseStats() }`
MainStats ==
  /\ mpc = "stats"
  /\ ran' = IF flags["stats"] THEN Append(ran, "GetDatabaseStats") ELSE ran
  /\ mpc' = "sample"
  /\ UNCHANGED <<dbvars, kvars, repovars, hvars, cvars, flags>>

\* `if *showSample { demoService.DisplaySampleData(5, 5) }`
MainSample ==
  /\ mpc = "sample"
  /\ ran' = IF flags["sample"] THEN Append(ran, "DisplaySampleData") ELSE ran
  /\ mpc' = "switch"
  /\ UNCHANGED <<dbvars, kvars, repovars, hvars, cvars, flags>>

MainSwitch ==
  /\ mpc = "switch"
  /\ ran' = ran \o Dispatch(flags)
  /\ mpc' = "done"
  /\ UNCHANGED <<dbvars, kvars, repovars, hvars, cvars, flags>>

InitMain ==
  /\ flags \in [MainFlags -> BOOLEAN]
  /\ mpc = "start"
  /\ ran = <<>>

\* main over an empty schema: the dispatch does not read the tables.
InitProgram ==
  /\ domain = "order"
  /\ orders = {} /\ order_details = {} /\ employees = {} /\ departments = {}
  /\ days = DefaultDays
  /\ InitLocals /\ InitNoCompare /\ InitNoFetch /\ InitMain /\ InitNoCache
NextMain ==
  \/ MainStart
  \/ MainStats
  \/ MainSample
  \/ MainSwitch
SpecMain == InitProgram /\ [][NextMain]_vars

\* ============================================================ cache service
\* runCacheTests(cacheService, benchmarkRuns): the cache service built by
\* NewCacheService, then the Oracle cache tests, the Redis test and the two
\* reports, each of whose errors is only logged.
MaxRuns == 3
\* flag.Int("benchmark-runs", 10, ...)
DefaultRuns == 10
\* The values of -benchmark-runs the model runs with.
BenchmarkRuns == (0..MaxRuns) \cup {DefaultRuns}

ClientAfterPing_Keep(host, up) == IF host THEN "client" ELSE "nil"

\* `if cfg.RedisHost != "" { redisClient = redis.NewClient(...)`, and
\* `redisClient = nil` when the Ping fails.
ClientAfterPing(host, up) == IF host /\ up THEN "client" ELSE "nil"

\* Go's integer division `totalDuration / time.Duration(runs)` panics with
\* "integer divide by zero" when runs is 0.
DivisionPanics(n) == n = 0
Average(total, n) == total \div n

HitRate_Warm(hitCount, n) == [num |-> 100 * hitCount, den |-> n - 1]

\* `float64(hitCount) / float64(runs) * 100`, kept as an exact fraction.
HitRate(hitCount, n) == [num |-> 100 * hitCount, den |-> n]

\* What an iteration of testRedisCache costs: a hit reads Redis, a miss
\* queries the database and writes Redis.
IterationTime(outcome) == IF outcome = "hit" THEN 3000000 ELSE 30000000

\* Where PerformComprehensiveAnalysis can fail: collectMetrics before the
\* loop of TestBufferCachePerformance, a test query in the loop,
\* collectMetrics after it, and everything from TestResultCachePerformance
\* on.
AnalysisFailures == {"none", "initialMetrics", "iterations", "finalMetrics",
                     "later"}

\* PerformComprehensiveAnalysis(n) when `failAt` fails: "nil", "error" or
\* "panic".  The loop runs no query when n is 0, and the average of
\* TestBufferCachePerformance is computed once the metrics are collected.
PerformComprehensiveAnalysis(n, failAt) ==
  IF failAt \in {"initialMetrics", "finalMetrics"}
     \/ (failAt = "iterations" /\ n > 0)
  THEN "error"
  ELSE IF DivisionPanics(n) THEN "panic"
  ELSE IF failAt = "later" THEN "error"
  ELSE "nil"

\* integrateAnalysisResults: the three results of a successful analysis.
integrateAnalysisResults ==
  [i \in 1..3 |->
     [Method |-> <<"Oracle_Buffer_Cache_Advanced", "Oracle_Result_Cache_Advanced",
                   "Oracle_Integrated_Cache">>[i],
      HitRate |-> HitRate(0, 1)]]

\* The tests of testOracleInternalCacheFallback, in the order of the code.
FallbackTests == <<"testDatabaseBufferCache", "testResultCache",
                   "testPLSQLFunctionCache">>

\* One fallback test over n runs when its database call fails or not:
\* testDatabaseBufferCache and testResultCache return the error of a query
\* of the loop; testPLSQLFunctionCache returns nil when CREATE FUNCTION
\* fails ("skip") and ignores the errors of its loop.  Each test divides by
\* runs after its loop.
CacheTest(t, n, fail) ==
  IF t = "testPLSQLFunctionCache"
  THEN IF fail THEN "skip" ELSE IF DivisionPanics(n) THEN "panic" ELSE "nil"
  ELSE IF fail /\ n > 0 THEN "error"
  ELSE IF DivisionPanics(n) THEN "panic" ELSE "nil"

\* The result a fallback test appends.
FallbackResult(t) ==
  [Method |-> CASE t = "testDatabaseBufferCache" -> "Oracle_Buffer_Cache"
                [] t = "testResultCache" -> "Oracle_Result_Cache"
                [] OTHER -> "Oracle_Function_Cache",
   HitRate |-> HitRate(0, 1)]

IndexOf(t) == CHOOSE i \in 1..Len(FallbackTests) : FallbackTests[i] = t

FallbackNext_Continue(t, out) ==
  IF IndexOf(t) < Len(FallbackTests)
  THEN FallbackTests[IndexOf(t) + 1] ELSE "TestExternalCache"

\* `if err := c.testX(runs); err != nil { return fmt.Errorf(...) }`: the
\* position after test t has returned out.
FallbackNext(t, out) ==
  IF out = "error" \/ IndexOf(t) = Len(FallbackTests)
  THEN "TestExternalCache" ELSE FallbackTests[IndexOf(t) + 1]

NewCacheService ==
  /\ kpc = "new"
  /\ \E up \in BOOLEAN :
       /\ redisClient' = ClientAfterPing(redis.host, up)
       /\ redis' = [redis EXCEPT !.pingFailed = redis.host /\ ~up]
  /\ kpc' = "TestOracleInternalCache"
  /\ UNCHANGED <<dbvars, repovars, hvars, cvars, mvars, runs, cresults, called,
                 kret, loop>>

\* TestOracleInternalCache up to the return of the analysis.
TestOracleInternalCache ==
  /\ kpc = "TestOracleInternalCache"
  /\ called' = Append(called, "PerformComprehensiveAnalysis")
  /\ \E failAt \in AnalysisFailures :
       LET out == PerformComprehensiveAnalysis(runs, failAt)
       IN CASE out = "panic" ->
                 /\ kpc' = "panic"
                 /\ UNCHANGED <<kret, cresults>>
            [] out = "error" ->
                 /\ kpc' = FallbackTests[1]
                 /\ kret' = [kret EXCEPT !["PerformComprehensiveAnalysis"] = "error"]
                 /\ UNCHANGED cresults
            [] OTHER ->
                 /\ kpc' = "TestExternalCache"
                 /\ cresults' = cresults \o integrateAnalysisResults
                 /\ kret' = [kret EXCEPT !["PerformComprehensiveAnalysis"] = "nil",
                                         !["TestOracleInternalCache"] = "nil"]
  /\ UNCHANGED <<dbvars, repovars, hvars, cvars, mvars, runs, redisClient, redis,
                 loop>>

\* One test of testOracleInternalCacheFallback and the error check after
\* it; the return of the fallback is the return of TestOracleInternalCache.
testOracleInternalCacheFallback ==
  /\ kpc \in {FallbackTests[i] : i \in 1..Len(FallbackTests)}
  /\ called' = Append(called, kpc)
  /\ \E fail \in BOOLEAN :
       LET out == CacheTest(kpc, runs, fail)
           next == FallbackNext(kpc, out)
           err == IF out = "error" THEN "error" ELSE "nil"
       IN IF out = "panic"
          THEN /\ kpc' = "panic"
               /\ UNCHANGED <<kret, cresults>>
          ELSE /\ kpc' = next
               /\ cresults' = IF out = "nil"
                              THEN Append(cresults, FallbackResult(kpc))
                              ELSE cresults
               /\ kret' = IF next = "TestExternalCache"
                          THEN [kret EXCEPT
                                  ![kpc] = err,
                                  !["testOracleInternalCacheFallback"] = err,
                                  !["TestOracleInternalCache"] = err]
                          ELSE [kret EXCEPT ![kpc] = err]
  /\ UNCHANGED <<dbvars, repovars, hvars, cvars, mvars, runs, redisClient, redis,
                 loop>>

\* `if c.redisClient == nil { ...; return nil }`, else testRedisCache.
TestExternalCache ==
  /\ kpc = "TestExternalCache"
  /\ called' = Append(called, "TestExternalCache")
  /\ IF redisClient = "nil"
     THEN /\ kret' = [kret EXCEPT !["TestExternalCache"] = "nil"]
          /\ kpc' = "DisplayCacheComparison"
          /\ UNCHANGED <<redis, loop>>
     ELSE /\ kpc' = "testRedisCache"
          /\ loop' = NoLoop
          /\ redis' = [redis EXCEPT !.keyAtStart = redis.key]
          /\ UNCHANGED kret
  /\ UNCHANGED <<dbvars, repovars, hvars, cvars, mvars, runs, redisClient,
                 cresults>>

\* One iteration of the loop of testRedisCache: Get, and on redis.Nil the
\* database query and Set; any other error of Get, of the query or of Set
\* is returned.
RedisIteration ==
  /\ kpc = "testRedisCache" /\ loop.i < runs
  /\ \E fail \in {"none", "get", "query", "set"} :
       LET outcome == IF redis.key THEN "hit" ELSE "miss"
           failed == fail = "get" \/ (outcome = "miss" /\ fail # "none")
       IN /\ redis' = [redis EXCEPT
                         !.ops = @ + 1 + (IF outcome = "miss" /\ fail \in {"none", "set"}
                                          THEN 1 ELSE 0),
                         !.key = @ \/ (outcome = "miss" /\ fail = "none")]
          /\ loop' = IF fail = "get" THEN loop
                     ELSE IF failed
                     THEN [loop EXCEPT !.dbQueries = @ + 1]
                     ELSE [loop EXCEPT
                             !.i = @ + 1,
                             !.hitCount = @ + (IF outcome = "hit" THEN 1 ELSE 0),
                             !.dbQueries = @ + (IF outcome = "miss" THEN 1 ELSE 0),
                             !.totalDuration = @ + IterationTime(outcome),
                             !.outcomes = Append(@, outcome)]
          /\ kret' = IF failed
                     THEN [kret EXCEPT !["TestExternalCache"] = "error"]
                     ELSE kret
          /\ kpc' = IF failed THEN "DisplayCacheComparison" ELSE kpc
  /\ UNCHANGED <<dbvars, repovars, hvars, cvars, mvars, runs, redisClient,
                 cresults, called>>

\* The key leaves Redis while the test runs: its five minutes are over, or
\* the server evicts or loses it.
RedisExpire ==
  /\ kpc = "testRedisCache" /\ redis.key
  /\ redis' = [redis EXCEPT !.key = FALSE, !.expired = TRUE]
  /\ UNCHANGED <<dbvars, repovars, hvars, cvars, mvars, runs, redisClient, kpc,
                 cresults, called, kret, loop>>

\* After the loop: the average, the hit rate, the result and
\* getRedisMemoryUsage, whose error is only printed.
RedisFinish ==
  /\ kpc = "testRedisCache" /\ ~(loop.i < runs)
  /\ IF DivisionPanics(runs)
     THEN /\ kpc' = "panic"
          /\ UNCHANGED <<redis, cresults, kret>>
     ELSE /\ cresults' = Append(cresults,
                                [Method |-> "Redis_External_Cache",
                                 ExecutionTime |-> Average(loop.totalDuration, runs),
                                 HitRate |-> HitRate(loop.hitCount, runs)])
          /\ redis' = [redis EXCEPT !.ops = @ + 1]
          /\ kret' = [kret EXCEPT !["TestExternalCache"] = "nil"]
          /\ kpc' = "DisplayCacheComparison"
  /\ UNCHANGED <<dbvars, repovars, hvars, cvars, mvars, runs, redisClient, called,
                 loop>>

\* `if len(c.results) == 0 { return fmt.Errorf(...) }`, else the table.
DisplayCacheComparison ==
  /\ kpc = "DisplayCacheComparison"
  /\ called' = Append(called, "DisplayCacheComparison")
  /\ kret' = [kret EXCEPT !["DisplayCacheComparison"] =
                            IF Len(cresults) = 0 THEN "error" ELSE "nil"]
  /\ kpc' = "DisplayMemoryUsageComparison"
  /\ UNCHANGED <<dbvars, repovars, hvars, cvars, mvars, runs, redisClient, redis,
                 cresults, loop>>

\* The memory report reads c.redisClient only to decide what it prints.
DisplayMemoryUsageComparison ==
  /\ kpc = "DisplayMemoryUsageComparison"
  /\ called' = Append(called, "DisplayMemoryUsageComparison")
  /\ kret' = [kret EXCEPT !["DisplayMemoryUsageComparison"] = "nil"]
  /\ kpc' = "done"
  /\ UNCHANGED <<dbvars, repovars, hvars, cvars, mvars, runs, redisClient, redis,
                 cresults, loop>>

\* The cache tests start with any -benchmark-runs, with or without
\* REDIS_HOST, and with the key present in Redis or not (a run within the
\* last five minutes has left it there).
InitCache ==
  /\ runs \in BenchmarkRuns
  /\ redisClient = "nil"
  /\ \E host, key \in BOOLEAN :
       redis = [NoRedis EXCEPT !.host = host, !.key = host /\ key]
  /\ kpc = "new"
  /\ cresults = <<>>
  /\ called = <<>>
  /\ kret = [r \in CacheRoutines |-> "none"]
  /\ loop = NoLoop

\* The cache tests over an empty schema: they do not read the demo tables.
InitCacheTests ==
  /\ domain = "order"
  /\ orders = {} /\ order_details = {} /\ employees = {} /\ departments = {}
  /\ days = DefaultDays
  /\ InitLocals /\ InitNoCompare /\ InitNoFetch /\ InitNoMain /\ InitCache
NextCache ==
  \/ NewCacheService
  \/ TestOracleInternalCache
  \/ testOracleInternalCacheFallback
  \/ TestExternalCache
  \/ RedisIteration
  \/ RedisExpire
  \/ RedisFinish
  \/ DisplayCacheComparison
  \/ DisplayMemoryUsageComparison
SpecCache == InitCacheTests /\ [][NextCache]_vars

\* ================================================================== claims
Ran(s) == ret[s] # NotRun
Returned(s) == Ran(s) /\ ~ret[s].err
Elems(s) == ret[s].val.elems

\* The parents the first query of a strategy returns.
MatchingOrders == {o \in orders : o.age <= days}
DetailsOf(o) == {x \in order_details : x.order_id = o.order_id}
NumParents ==
  IF domain = "order" THEN Cardinality(MatchingOrders) ELSE Cardinality(employees)

\* The content of an aggregate sequence, nil-ness of slices left aside.
OrderContent(es) ==
  [i \in 1..Len(es) |-> [Order |-> es[i].Order, Details |-> es[i].Details.elems]]

\* C1: GetOrdersWithDetailsJoin returns its aggregates in ascending order_id
\* order, whatever the iteration order of the grouping map.
C1_JoinAscending ==
  (domain = "order" /\ Returned("join")) =>
    \A i, j \in 1..Len(Elems("join")) :
      i < j => Elems("join")[i].Order.OrderID < Elems("join")[j].Order.OrderID

\* C2: over the same orders, details and filter, the naive, join and batch
\* order strategies return element-wise equal aggregate sequences.
C2_OrderStrategiesEqual ==
  (domain = "order" /\ Returned("naive") /\ Returned("join") /\ Returned("batch")) =>
    /\ OrderContent(Elems("naive")) = OrderContent(Elems("join"))
    /\ OrderContent(Elems("join")) = OrderContent(Elems("batch"))

\* C3: over the same employees and departments, the naive, join and batch
\* employee strategies either all fail or all return equal sequences.
C3_EmployeeStrategiesEqual ==
  (domain = "employee" /\ Ran("naive") /\ Ran("join") /\ Ran("batch")) =>
    \/ ret["naive"].err /\ ret["join"].err /\ ret["batch"].err
    \/ /\ ~ret["naive"].err /\ ~ret["join"].err /\ ~ret["batch"].err
       /\ Elems("naive") = Elems("join")
       /\ Elems("join") = Elems("batch")

\* C4: a strategy that returns without error has issued 1 + |parents| queries
\* (naive), exactly 1 (join), and 2 or, with no parent, 1 (batch).
C4_QueryCounts ==
  /\ Returned("naive") => ret["naive"].queries = 1 + NumParents
  /\ Returned("join") => ret["join"].queries = 1
  /\ Returned("batch") =>
       ret["batch"].queries = (IF NumParents = 0 THEN 1 ELSE 2)

C4_Witness ==
  /\ NumParents >= 2
  /\ Returned("naive") /\ Returned("join") /\ Returned("batch")
  /\ ret["naive"].queries = 1 + NumParents
  /\ ret["batch"].queries = 2

\* C5: a batch strategy whose parent query returns zero parents returns an
\* empty, non-nil sequence without error after exactly one query, and sends
\* no membership query.
C5_BatchZeroParents ==
  (Ran("batch") /\ NumParents = 0) =>
    /\ ret["batch"] = Ok(EmptySlice, 1)
    /\ pc = "idle" => inList = <<>>

C5_Witness ==
  /\ Ran("batch") /\ NumParents = 0
  /\ domain = "order" /\ orders # {} /\ order_details # {}
  /\ ret["batch"] = Ok(EmptySlice, 1)

\* C6: in the join and the batch order strategy an order without detail rows
\* appears in the output with Details empty and non-nil.
C6_NoDetailsIsEmptySlice ==
  domain = "order" =>
    \A s \in {"join", "batch"} :
      Returned(s) =>
        \A o \in MatchingOrders :
          DetailsOf(o) = {} =>
            \E i \in 1..Len(Elems(s)) :
              /\ Elems(s)[i].Order = ScanOrder(o)
              /\ Elems(s)[i].Details = EmptySlice

C6_Witness ==
  /\ domain = "order" /\ Returned("join") /\ Returned("batch")
  /\ \E o, p \in MatchingOrders : DetailsOf(o) = {} /\ DetailsOf(p) # {}
  /\ \E i \in 1..Len(Elems("batch")) : Elems("batch")[i].Details = EmptySlice
  /\ \E i \in 1..Len(Elems("join")) : Elems("join")[i].Details = EmptySlice

\* C7: in every aggregate the naive order strategy returns, Details is never
\* nil, also for an order whose detail query returns no rows.
C7_NaiveDetailsNeverNil ==
  (domain = "order" /\ Returned("naive")) =>
    \A i \in 1..Len(Elems("naive")) : ~Elems("naive")[i].Details.nil

\* C8: an employee whose department_id matches no department row gets a nil
\* Department and causes no error in any employee strategy: unless a NULL
\* column makes a scan fail, the strategy returns one aggregate per employee.
NoScanFailure ==
  /\ \A e \in employees : ~IsNull(e.department_id)
  /\ \A d \in departments :
       (\E e \in employees : e.department_id = Some(d.department_id))
         => ~IsNull(d.location)
Unmatched(e) ==
  \A d \in departments : e.department_id # Some(d.department_id)

DetailPlaces(es, detailID) ==
  {<<i, j>> \in (1..Len(es)) \X DetailIds :
     j <= Len(es[i].Details.elems) /\ es[i].Details.elems[j].DetailID = detailID}
RECURSIVE SumLens(_, _)
SumLens(es, i) ==
  IF i > Len(es) THEN 0 ELSE Len(es[i].Details.elems) + SumLens(es, i + 1)

C9_OneAggregatePerParent ==
  domain = "order" =>
    \A s \in {"join", "batch"} :
      Returned(s) =>
        /\ Len(Elems(s)) = Cardinality(MatchingOrders)
        /\ \A o \in MatchingOrders :
             Cardinality({i \in 1..Len(Elems(s)) : Elems(s)[i].Order = ScanOrder(o)}) = 1
        /\ \A o \in MatchingOrders : \A x \in DetailsOf(o) :
             /\ Cardinality(DetailPlaces(Elems(s), x.detail_id)) = 1
             /\ \A pl \in DetailPlaces(Elems(s), x.detail_id) :
                  /\ Elems(s)[pl[1]].Order.OrderID = x.order_id
                  /\ Elems(s)[pl[1]].Details.elems[pl[2]] = ScanDetail(x)
        /\ SumLens(Elems(s), 1) =
             Cardinality(UNION {DetailsOf(o) : o \in MatchingOrders})

\* parents 1,2,3 with children a,b of 1 and c of 3
C9_Witness ==
  /\ domain = "order" /\ Returned("join") /\ Returned("batch")
  /\ {o.order_id : o \in MatchingOrders} = {1, 2, 3}
  /\ {x.order_id : x \in order_details} = {1, 3}
  /\ Cardinality(order_details) = 3
  /\ \A s \in {"join", "batch"} :
       \E i, j, k \in 1..3 :
         /\ Elems(s)[i].Order.OrderID = 1 /\ Len(Elems(s)[i].Details.elems) = 2
         /\ Elems(s)[j].Order.OrderID = 2 /\ Len(Elems(s)[j].Details.elems) = 0
         /\ Elems(s)[k].Order.OrderID = 3 /\ Len(Elems(s)[k].Details.elems) = 1

\* C10: the membership list of the batch strategies' second query holds each
\* needed key once: for employees the distinct department IDs (at most the
\* employee count, equal only when no two employees share one), for orders
\* one entry per fetched order.
NoDuplicates(s) == \A i, j \in 1..Len(s) : s[i] = s[j] => i = j
SharedDepartment ==
  \E e, f \in employees : e # f /\ e.department_id = f.department_id

C10_MembershipList ==
  (pc = "idle" /\ inList # <<>>) =>
    /\ NoDuplicates(inList)
    /\ domain = "employee" =>
         /\ Range(inList) = {Val(e.department_id) : e \in employees}
         /\ Len(inList) <= Cardinality(employees)
         /\ Len(inList) = Cardinality(employees) <=> ~SharedDepartment
    /\ domain = "order" =>
         /\ Range(inList) = {o.order_id : o \in MatchingOrders}
         /\ Len(inList) = Cardinality(MatchingOrders)

C10_Witness ==
  /\ pc = "idle" /\ domain = "employee" /\ Returned("batch")
  /\ Cardinality(employees) = 3 /\ SharedDepartment
  /\ Len(inList) = 2

\* ------------------------------------------------- claims on the comparison
Compared == hpc.at = "done"
AllStrategies == <<"naive", "join", "batch">>

\* C11: a strategy that fails does not abort the comparison: when
\* CompareOrderPerformance or CompareEmployeePerformance has returned, every
\* strategy has been invoked, whichever of them failed.
C11_FailureDoesNotAbort ==
  Compared => log = AllStrategies

\* C12: a comparison that returns without error has invoked naive, join and
\* batch once each, in that order and one after the other, and returns the
\* three records N+1_Problem, JOIN_Optimized, Batch_Optimized, each with the
\* number of aggregates its strategy returned.
C12_ThreeRecordsInOrder ==
  /\ pc # "idle" => (hpc.at = "in" /\ log # <<>> /\ log[Len(log)] = hpc.s)
  /\ (Compared /\ ~hret.err) =>
       /\ log = AllStrategies
       /\ Len0(hret.val) = 3
       /\ \A i \in 1..3 :
            /\ hret.val.elems[i].Method = MethodName(AllStrategies[i])
            /\ hret.val.elems[i].RecordCount = Len(Elems(AllStrategies[i]))

C12_Witness ==
  /\ Compared /\ ~hret.err
  /\ domain = "order" /\ NumParents = 2
  /\ hret.val.elems[3].RecordCount = 2

\* C13: the speed-up printed for a strategy is the baseline duration divided
\* by the strategy's duration, both in nanoseconds, to one decimal: it is the
\* tenth nearest to the quotient, and 30 ms against 3 ms prints 10.0.
C13_SpeedUp ==
  (Compared /\ ~hret.err) =>
    \A i \in 2..3 :
      LET base == hret.val.elems[1].ExecutionTime
          d == hret.val.elems[i].ExecutionTime
          tenths == printed.lines[i].improvement
          whole == (10 * base) \div d
          rest == (10 * base) % d
      IN /\ tenths = (IF 2 * rest >= d THEN whole + 1 ELSE whole)
         /\ (base = 30000000 /\ d = 3000000) => tenths = 100

C13_Witness ==
  /\ Compared /\ ~hret.err
  /\ hret.val.elems[1].ExecutionTime = 30000000
  /\ hret.val.elems[2].ExecutionTime = 3000000
  /\ printed.lines[2].improvement = 100

\* C14: when the query (or the scan) for the k-th parent of a naive strategy
\* fails, the strategy returns an error and no result, dropping the k - 1
\* aggregates it had assembled, and has issued the parent query and k child
\* queries, none for a later parent.
C14_NaiveFailsAtKth ==
  [][(pc \in {"GetOrdersWithDetails", "GetEmployeesWithDepartment"}
      /\ ret'["naive"] # ret["naive"] /\ ret'["naive"].err) =>
       /\ ret'["naive"].val = NilSlice
       /\ ret'["naive"].queries = 1 + (idx + 1)
       /\ pc' = "idle"]_vars

C14_Witness ==
  /\ Ran("naive") /\ ret["naive"].err
  /\ ret["naive"].queries = 3
  /\ NumParents = 3

\* --------------------------------------------- claims on the fetch functions
FetchReturned == cpc = "returned"

\* C15: a fetch function that has returned after its query, a row scan or
\* the row iteration failed has returned an error.
C15_NoErrorSwallowed ==
  (FetchReturned /\ (cfailed.query \/ cfailed.scan \/ cfailed.iter)) => cret.err

\* C16: a cursor a fetch function opened is released exactly once before
\* the function returns, on every path, and not while the loop still reads.
C16_CursorReleasedOnce ==
  /\ FetchReturned => cursor.closed = cursor.opened
  /\ cpc \in {"loop", "closing"} => (cursor.opened = 1 /\ cursor.closed = 0)

C16_Witness ==
  /\ FetchReturned /\ cfailed.scan
  /\ cursor.opened = 1 /\ cursor.closed = 1

\* C17: a failing rows.Close is only logged: the function returns the value
\* and the error of the return statement it executed, as it does when the
\* release succeeds.
C17_CloseFailureNotFatal ==
  (FetchReturned /\ cursor.opened = 1) =>
    /\ cret = cpending
    /\ cursor.logged <= 1

C17_Witness ==
  /\ FetchReturned /\ cursor.logged = 1
  /\ ~cret.err /\ Len0(cret.val) = 2

\* ------------------------------------------------------ order of the details
\* The details of order `id` in what strategy s returned.
DetailsIn(s, id) ==
  LET i == CHOOSE k \in 1..Len(Elems(s)) : Elems(s)[k].Order.OrderID = id
  IN Elems(s)[i].Details.elems

\* C18: in what the join and the batch order strategies return, the details
\* of each aggregate are all details of its order in ascending detail_id
\* order, the order of the query rows, and so the same in both.
C18_DetailOrder ==
  domain = "order" =>
    /\ \A s \in {"join", "batch"} :
         Returned(s) =>
           \A o \in MatchingOrders :
             LET ds == DetailsIn(s, o.order_id)
             IN /\ {d.DetailID : d \in Range(ds)} = {x.detail_id : x \in DetailsOf(o)}
                /\ \A i, j \in 1..Len(ds) : i < j => ds[i].DetailID < ds[j].DetailID
    /\ (Returned("join") /\ Returned("batch")) =>
         \A o \in MatchingOrders :
           DetailsIn("join", o.order_id) = DetailsIn("batch", o.order_id)

C18_Witness ==
  /\ domain = "order" /\ Returned("join") /\ Returned("batch")
  /\ \E o \in MatchingOrders :
       /\ Len(DetailsIn("batch", o.order_id)) = 2
       /\ Cardinality(MatchingOrders) = 2

\* ------------------------------------------------------------- repeatability
\* C19: a strategy invoked again over the same tables and filter returns the
\* sequence it returned before, whatever ran in between.
C19_SameResultAgain ==
  [][\A s \in Strategies :
       (Returned(s) /\ ret'[s] # NotRun /\ ~ret'[s].err) => ret'[s].val = ret[s].val]_vars

\* ----------------------------------------------------------------- main
\* C20: with -employee-only set and -cache-only not set, a run of main that
\* reaches its end has run the employee comparison and not the order
\* comparison, whatever -order-only, -cache-test, -stats and -sample are.
C20_EmployeeOnly ==
  (mpc = "done" /\ flags["employee-only"] /\ ~flags["cache-only"]) =>
    /\ "runEmployeeTests" \in Range(ran)
    /\ "runOrderTests" \notin Range(ran)

\* ------------------------------------------------------ abort on failure
\* C21: when a strategy call of the comparison returns an error, the
\* comparison returns an error and no result list, the records appended so
\* far are dropped, no later strategy is invoked and nothing is printed
\* about speed-ups.
C21_AbortsOnFirstError ==
  (Compared /\ \E s \in Range(log) : ret[s].err) =>
    /\ hret.err /\ hret.val = NilSlice
    /\ printed = NothingPrinted
    /\ ret[log[Len(log)]].err
    /\ \A i \in 1..Len(log) :
         /\ log[i] = AllStrategies[i]
         /\ i < Len(log) => ~ret[log[i]].err

C21_Witness ==
  /\ Compared /\ hret.err
  /\ log = <<"naive", "join">>
  /\ Len0(results) = 1
  /\ Len0(ret["naive"].val) = 2

\* ------------------------------------------------------- parent order
\* The key of the parent at position i of what the parent query returns.
ParentKeyAt(i) ==
  IF domain = "order" THEN QueryOrdersByDays(days)[i].order_id
  ELSE QueryAllEmployees[i].employee_id

\* The key of the parent inside an aggregate.
ParentKeyOf(e) ==
  IF domain = "order" THEN e.Order.OrderID ELSE e.Employee.EmployeeID

\* C22: what the naive and the batch strategies return holds one aggregate
\* per parent of the parent query, position i holding parent i, and the
\* naive loop has, after k child queries, handled parents 1..k in that order.
C22_ParentOrder ==
  /\ \A s \in {"naive", "batch"} :
       Returned(s) =>
         /\ Len(Elems(s)) = NumParents
         /\ \A i \in 1..Len(Elems(s)) : ParentKeyOf(Elems(s)[i]) = ParentKeyAt(i)
  /\ pc \in {"GetOrdersWithDetails", "GetEmployeesWithDepartment"} =>
       /\ Len0(result) = idx
       /\ queries = 1 + idx
       /\ \A i \in 1..idx : ParentKeyOf(result.elems[i]) = ParentKeyAt(i)

C22_Witness ==
  /\ Returned("naive") /\ Returned("batch")
  /\ NumParents = 3
  /\ ParentKeyOf(Elems("batch")[3]) = 3

\* ------------------------------------------------------- membership queries
\* C23: GetDetailsByOrderIDs and GetDepartmentsByIDs called with an empty ID
\* list return an empty, non-nil list and no error without issuing a query;
\* with a non-empty list they do issue the membership query.
C23_EmptyListShortCut ==
  (cpc # "idle" /\ IsMembership(cfn.name)) =>
    IF Len(cfn.arg) = 0
    THEN /\ cpc = "returned"
         /\ cret = [err |-> FALSE, val |-> EmptySlice]
         /\ cursor.opened = 0 /\ ~cfailed.query
         /\ inList = <<>> /\ placeholders = <<>>
         /\ GetDetailsByOrderIDs(<<>>) = Ok(EmptySlice, 0)
         /\ GetDepartmentsByIDs(<<>>) = {Ok(EmptySlice, 0)}
    ELSE /\ cursor.opened = 1 \/ cfailed.query
         /\ placeholders # <<>>

C23_Witness ==
  /\ cpc = "returned" /\ cfn = [name |-> "GetDepartmentsByIDs", arg |-> <<>>]
  /\ Cardinality(departments) = 2

\* C24: for an ID list of length n >= 1 the membership query has the n
\* placeholders :1 .. :n and n bound arguments, the i-th argument being the
\* i-th ID of the list.
C24_PlaceholdersMatchArgs ==
  (cpc # "idle" /\ IsMembership(cfn.name) /\ Len(cfn.arg) >= 1) =>
    /\ Len(placeholders) = Len(cfn.arg)
    /\ Len(inList) = Len(placeholders)
    /\ \A i \in 1..Len(cfn.arg) : placeholders[i] = i /\ inList[i] = cfn.arg[i]

C24_Witness ==
  /\ cpc = "returned" /\ cfn.name = "GetDetailsByOrderIDs"
  /\ Len(cfn.arg) = 3 /\ placeholders = <<1, 2, 3>> /\ ~cret.err

\* ------------------------------------------------------ employee strategies
\* C28: in what GetEmployeesWithDepartmentJoin returns, every employee whose
\* department_id matches a department row has a non-nil Department with that
\* row's name and location; a nil Department means that no row matches.
C28_JoinDepartmentPresent ==
  (domain = "employee" /\ Returned("join")) =>
    \A i \in 1..Len(Elems("join")) :
      \A d \in departments :
        d.department_id = Elems("join")[i].Employee.DepartmentID =>
          /\ Elems("join")[i].Department # NilPtr
          /\ Elems("join")[i].Department[1].DepartmentName = d.department_name
          /\ Some(Elems("join")[i].Department[1].Location) = d.location

\* C29: the batch employee strategy returns the same outcome for every
\* order of the distinct department IDs in the membership list and every
\* order of the rows of the second query: each outcome equals the one of an
\* arbitrarily fixed pair of orders.
C29_BatchOrderIndependent ==
  [][(pc = "GetEmployeesWithDepartmentBatch" /\ pc' = "idle") =>
       LET ids0 == CHOOSE l \in DepartmentIDLists(parents.elems) : TRUE
           r0 == CHOOSE r \in GetDepartmentsByIDs(ids0) : TRUE
       IN ret'["batch"] =
            (IF r0.err THEN Fail(queries + r0.queries)
             ELSE Ok(BatchAssembleEmployees(parents.elems,
                                            DepartmentMapOf(r0.val.elems, EmptyMap)),
                     queries + r0.queries))]_vars

C29_Witness ==
  /\ pc = "idle" /\ domain = "employee" /\ Returned("batch")
  /\ Len(inList) = 2 /\ Cardinality(departments) = 2
  /\ \A i \in 1..Len(Elems("batch")) : Elems("batch")[i].Department # NilPtr

\* The Redis test has run to its end and recorded its result.
RedisTested ==
  /\ kret["TestExternalCache"] = "nil"
  /\ redisClient = "client"
\* The key was absent when the test began and has not left Redis since.
ColdAndKept == ~redis.keyAtStart /\ ~redis.expired
RedisResult == cresults[Len(cresults)]

\* C25: testRedisCache over n >= 1 iterations, with the key absent at the
\* start and neither expiry nor eviction during the run: the first iteration
\* misses, queries the database once and stores the result, every later
\* iteration hits; the test ends with one database query, n-1 hits and the
\* hit rate (n-1)/n, 90% for the default 10 runs.
C25_OneMissThenHits ==
  /\ (kpc = "testRedisCache" /\ ColdAndKept) =>
       /\ \A i \in 1..Len(loop.outcomes) :
            loop.outcomes[i] = IF i = 1 THEN "miss" ELSE "hit"
       /\ loop.i >= 1 => (redis.key /\ loop.dbQueries = 1)
  /\ (RedisTested /\ ColdAndKept) =>
       /\ runs >= 1
       /\ Len(loop.outcomes) = runs
       /\ loop.outcomes[1] = "miss"
       /\ \A i \in 2..runs : loop.outcomes[i] = "hit"
       /\ loop.dbQueries = 1
       /\ loop.hitCount = runs - 1
       /\ RedisResult.Method = "Redis_External_Cache"
       /\ RedisResult.HitRate.num * runs = 100 * (runs - 1) * RedisResult.HitRate.den
       /\ runs = DefaultRuns => RedisResult.HitRate.num = 90 * RedisResult.HitRate.den
C25_Witness ==
  RedisTested /\ ColdAndKept /\ runs = DefaultRuns /\ loop.hitCount = 9

AnalysisFailed == kret["PerformComprehensiveAnalysis"] = "error"
IsFallbackTest(r) == \E i \in 1..Len(FallbackTests) : FallbackTests[i] = r
FallbackCalled == SelectSeq(called, IsFallbackTest)
OracleReturned == kret["TestOracleInternalCache"] # "none"

\* C26: when the comprehensive analysis fails, TestOracleInternalCache does
\* not return its error: the fallback runs the buffer cache, result cache and
\* PL/SQL function tests in that order, stops at the first that returns an
\* error, and its outcome is what TestOracleInternalCache returns; when the
\* analysis succeeds the fallback never runs.
C26_FallbackOutcome ==
  /\ kret["PerformComprehensiveAnalysis"] = "nil" =>
       /\ FallbackCalled = <<>>
       /\ kret["testOracleInternalCacheFallback"] = "none"
       /\ kret["TestOracleInternalCache"] = "nil"
  /\ FallbackCalled # <<>> => AnalysisFailed
  /\ Len(FallbackCalled) <= Len(FallbackTests)
  /\ \A i \in 1..Len(FallbackCalled) :
       /\ FallbackCalled[i] = FallbackTests[i]
       /\ i > 1 => kret[FallbackTests[i - 1]] = "nil"
  /\ (AnalysisFailed /\ OracleReturned) =>
       /\ FallbackCalled # <<>>
       /\ kret["TestOracleInternalCache"] = kret["testOracleInternalCacheFallback"]
       /\ kret["testOracleInternalCacheFallback"] =
            IF \E i \in 1..Len(FallbackCalled) : kret[FallbackCalled[i]] = "error"
            THEN "error" ELSE "nil"
       /\ kret["testOracleInternalCacheFallback"] = "nil" =>
            FallbackCalled = FallbackTests
C26_Witness ==
  /\ AnalysisFailed /\ kpc = "done"
  /\ kret["testDatabaseBufferCache"] = "nil"
  /\ kret["testResultCache"] = "error"
  /\ kret["TestOracleInternalCache"] = "error"

HasRedisResult == \E i \in 1..Len(cresults) : cresults[i].Method = "Redis_External_Cache"

\* C27: when the Redis ping fails at construction the client is discarded;
\* TestExternalCache then returns no error, records no result and performs
\* no Redis operation, and the Oracle cache tests and the reports run as
\* they do with no Redis configured.
C27_PingFailureSkipsRedis ==
  redis.pingFailed =>
    /\ redisClient = "nil"
    /\ redisClient = ClientAfterPing(FALSE, FALSE)
    /\ redis.ops = 0
    /\ kpc # "testRedisCache"
    /\ ~HasRedisResult
    /\ kret["TestExternalCache"] \in {"none", "nil"}
    /\ kpc \in {"DisplayCacheComparison", "DisplayMemoryUsageComparison", "done"} =>
         /\ kret["TestExternalCache"] = "nil"
         /\ OracleReturned
    /\ kpc = "done" =>
         /\ SubSeq(called, Len(called) - 2, Len(called)) =
              <<"TestExternalCache", "DisplayCacheComparison",
                "DisplayMemoryUsageComparison">>
         /\ kret["DisplayCacheComparison"] =
              IF Len(cresults) = 0 THEN "error" ELSE "nil"
         /\ kret["DisplayMemoryUsageComparison"] = "nil"
C27_Witness ==
  redis.pingFailed /\ kpc = "done" /\ Len(cresults) > 0

\* C30: for every -benchmark-runs n >= 0, 0 included, the cache benchmark
\* routines compute their average execution time without an integer
\* division by zero.
C30_NoDivisionByZero == kpc # "panic"
====
